---- MODULE Spec2Model ----
(***************************************************************************)
(* Capacitated Vehicle Routing: the problem model (cvrp.py) and the five   *)
(* search strategies (greedy, random, genetic, simulated annealing, tabu). *)
(* Distances are Euclidean distances on a fixed-point grid of 1/Scale.     *)
(***************************************************************************)
EXTENDS Integers, Sequences, FiniteSets, TLC

VARIABLES
    cvrp,        \* the CVRP object: locations, demands, vehicle_capacity, distance_matrix
    call,        \* a direct call of validate_solution / _split_to_routes: op, arg, result
    greedy,      \* GreedyAlgorithm run state
    rnd,         \* RandomAlgorithm run state
    ga,          \* GeneticAlgorithm run state
    sa,          \* SimulatedAnnealing run state
    tabu,        \* TabuSearch run state
    random       \* the hidden generator of the module random, shared by all strategies

vars == <<cvrp, call, greedy, rnd, ga, sa, tabu, random>>

-----------------------------------------------------------------------------
(* Bounds of the model *)

MaxCustomers == 3       \* customers of a problem given to a search strategy
MaxSplitLen == 4        \* customers of a problem whose orderings are split directly
MaxValCustomers == 2    \* customers of a problem whose candidate solutions are validated directly
MaxDemand == 2          \* demands are drawn from 1..MaxDemand
MaxCapacity == 2        \* capacities are drawn from 1..MaxCapacity
MaxRoutes == 2          \* routes of a candidate solution handed to validate_solution
MaxRouteLen == 3        \* nodes of one route of such a candidate
MaxIterations == 3      \* num_iterations / iterations of a run
MaxRestarts == 2        \* num_runs of GreedyAlgorithm
MaxTabuIterations == 2  \* iterations of TabuSearch
MaxPop == 2             \* pop_size of GeneticAlgorithm
MaxGenerations == 2     \* generations of GeneticAlgorithm
MaxTournament == 2      \* tournament_size of GeneticAlgorithm
MaxSeed == 3            \* seeds of the generator of the module random
MaxTabuSize == 2        \* tabu_size of TabuSearch
MaxNeighbors == 2       \* neighborhood_size of TabuSearch

(* Fixed-point resolution of a distance: 1/Scale of a coordinate unit *)
Scale == 100

(* float('inf'): larger than every cost of the model *)
Inf == 1000000000

(* math.exp(-x) is 0.0 in double precision for every x above this *)
ExpUnderflow == 745

(* 10^e is 0.0 in double precision for every e below this *)
FloatMinExp == -323

-----------------------------------------------------------------------------
(* Python list idioms *)

RECURSIVE SumSeq(_)
SumSeq(s) == IF s = <<>> THEN 0 ELSE Head(s) + SumSeq(Tail(s))

RECURSIVE Concat(_)
Concat(ss) == IF ss = <<>> THEN <<>> ELSE Head(ss) \o Concat(Tail(ss))

\* s[1:-1]
Interior(s) == IF Len(s) <= 2 THEN <<>> ELSE SubSeq(s, 2, Len(s) - 1)

\* s[:-1]
DropLast(s) == IF s = <<>> THEN <<>> ELSE SubSeq(s, 1, Len(s) - 1)

\* whether s[i] raises IndexError (0-based, negative indices count from the end)
IndexError(s, i) == i >= Len(s) \/ i < -Len(s)

\* s[i] for an index that does not raise
PyGet(s, i) == IF i >= 0 THEN s[i + 1] ELSE s[Len(s) + i + 1]

SeqToSet(s) == {s[i] : i \in 1..Len(s)}

Filter0(s) == SelectSeq(s, LAMBDA x : x # 0)

Min2(a, b) == IF a <= b THEN a ELSE b
Max2(a, b) == IF a >= b THEN a ELSE b

RECURSIVE MinSeq(_)
MinSeq(s) == IF Len(s) = 1 THEN s[1] ELSE Min2(Head(s), MinSeq(Tail(s)))

RECURSIVE MaxSeq(_)
MaxSeq(s) == IF Len(s) = 1 THEN s[1] ELSE Max2(Head(s), MaxSeq(Tail(s)))

\* all sequences over S of length 0..n
SeqsUpTo(S, n) == UNION {[1..k -> S] : k \in 0..n}

\* all orderings of the finite set S (the outcomes of random.shuffle)
Perms(S) == {p \in [1..Cardinality(S) -> S] : \A i, j \in 1..Cardinality(S) : p[i] = p[j] => i = j}

-----------------------------------------------------------------------------
(* cvrp.py: the problem model *)

\* floor(sqrt(x)) on the fixed-point grid
ISqrt(x) == CHOOSE r \in 0..(4 * Scale) : r * r <= x /\ x < (r + 1) * (r + 1)

\* math.sqrt((x2-x1)**2 + (y2-y1)**2), tabulated by squared coordinate distance
SqrtTable == [d2 \in 0..13 |-> ISqrt(d2 * Scale * Scale)]

Depot == <<0, 0>>
CustomerCoords == << <<1, 0>>, <<2, 0>>, <<0, 1>>, <<0, 2>>, <<3, 0>>, <<0, 3>> >>

create_distance_matrix(locations) ==
    [i \in 0..(Len(locations) - 1) |->
        [j \in 0..(Len(locations) - 1) |->
            LET dx == locations[j + 1][1] - locations[i + 1][1]
                dy == locations[j + 1][2] - locations[i + 1][2]
            IN  SqrtTable[dx * dx + dy * dy]]]

\* CVRP.__init__
CVRP(depot, locations, demands, vehicle_capacity) ==
    [locations        |-> <<depot>> \o locations,
     demands          |-> <<0>> \o demands,
     vehicle_capacity |-> vehicle_capacity,
     distance_matrix  |-> create_distance_matrix(<<depot>> \o locations)]

\* the problems with at most maxN customers
Problems(maxN) ==
    UNION {{CVRP(Depot, SubSeq(CustomerCoords, 1, n), d, c) :
                d \in [1..n -> 1..MaxDemand], c \in 1..MaxCapacity} : n \in 0..maxN}

\* the problems among them whose customers all have the same demand
UniformProblems(maxN) ==
    {p \in Problems(maxN) : \A i, j \in 2..Len(p.demands) : p.demands[i] = p.demands[j]}

NumCustomers(p) == Len(p.locations) - 1

RECURSIVE calculate_route_distance(_, _)
calculate_route_distance(p, route) ==
    IF Len(route) <= 1 THEN 0
    ELSE p.distance_matrix[route[1]][route[2]] + calculate_route_distance(p, Tail(route))

\* sum of calculate_route_distance over the routes of a solution
RECURSIVE calculate_cost(_, _)
calculate_cost(p, solution) ==
    IF solution = <<>> THEN 0
    ELSE calculate_route_distance(p, Head(solution)) + calculate_cost(p, Tail(solution))

\* CVRP.validate_solution, first loop: the interior nodes, in the order they are visited
InteriorNodes(routes) == Concat([r \in 1..Len(routes) |-> Interior(routes[r])])

\* first loop: some interior node is already visited, or <= 0, or >= len(locations)
BadInteriorNode(p, routes) ==
    LET nodes == InteriorNodes(routes)
    IN  \E i \in 1..Len(nodes) :
            \/ \E j \in 1..(i - 1) : nodes[j] = nodes[i]
            \/ nodes[i] <= 0
            \/ nodes[i] >= Len(p.locations)

\* self.demands[node] raises for some node of the route
RouteDemandRaises(p, route) == \E i \in 1..Len(route) : IndexError(p.demands, route[i])

\* sum(self.demands[node] for node in route)
route_demand(p, route) == SumSeq([i \in 1..Len(route) |-> PyGet(p.demands, route[i])])

\* third loop: capacity of each route in turn
RECURSIVE CapacityLoop(_, _)
CapacityLoop(p, routes) ==
    IF routes = <<>> THEN "True"
    ELSE IF RouteDemandRaises(p, Head(routes)) THEN "IndexError"
    ELSE IF route_demand(p, Head(routes)) > p.vehicle_capacity THEN "False"
    ELSE CapacityLoop(p, Tail(routes))

\* fourth loop: route[0] != 0 or route[-1] != 0, which raises on an empty route
RECURSIVE DepotLoop(_)
DepotLoop(routes) ==
    IF routes = <<>> THEN "True"
    ELSE LET route == Head(routes)
         IN  IF IndexError(route, 0) THEN "IndexError"
             ELSE IF PyGet(route, 0) # 0 \/ PyGet(route, -1) # 0 THEN "False"
             ELSE DepotLoop(Tail(routes))

\* CVRP.validate_solution: "True", "False", or the exception it raises
validate_solution(p, routes) ==
    IF BadInteriorNode(p, routes) THEN "False"
    ELSE IF Len(InteriorNodes(routes)) # Len(p.locations) - 1 THEN "False"
    ELSE IF CapacityLoop(p, routes) # "True" THEN CapacityLoop(p, routes)
    ELSE DepotLoop(routes)

-----------------------------------------------------------------------------
(* _split_to_routes: the same routine in random_algorithm.py, genetic_algorithm.py, *)
(* simulated_annealing.py and tabu_search.py                                        *)

\* SplitLoop closing a route already when the next customer fills it exactly (>= for >)
RECURSIVE SplitLoopClosesWhenFull(_, _, _, _, _)
SplitLoopClosesWhenFull(p, customers, routes, current_route, current_load) ==
    IF customers = <<>>
    THEN IF Len(current_route) > 1
         THEN Append(routes, Append(current_route, 0))
         ELSE routes
    ELSE LET customer == Head(customers)
             demand == PyGet(p.demands, customer)
         IN  IF current_load + demand >= p.vehicle_capacity
             THEN SplitLoopClosesWhenFull(p, Tail(customers),
                            Append(routes, Append(current_route, 0)), <<0, customer>>, demand)
             ELSE SplitLoopClosesWhenFull(p, Tail(customers), routes,
                            Append(current_route, customer), current_load + demand)

\* SplitLoop opening the new route with load 0 instead of the customer's demand
RECURSIVE SplitLoopLoadForgotten(_, _, _, _, _)
SplitLoopLoadForgotten(p, customers, routes, current_route, current_load) ==
    IF customers = <<>>
    THEN IF Len(current_route) > 1
         THEN Append(routes, Append(current_route, 0))
         ELSE routes
    ELSE LET customer == Head(customers)
             demand == PyGet(p.demands, customer)
         IN  IF current_load + demand > p.vehicle_capacity
             THEN SplitLoopLoadForgotten(p, Tail(customers),
                            Append(routes, Append(current_route, 0)), <<0, customer>>, 0)
             ELSE SplitLoopLoadForgotten(p, Tail(customers), routes,
                            Append(current_route, customer), current_load + demand)

\* the for loop over customers, then the closing of the last route
RECURSIVE SplitLoop(_, _, _, _, _)
SplitLoop(p, customers, routes, current_route, current_load) ==
    IF customers = <<>>
    THEN IF Len(current_route) > 1
         THEN Append(routes, Append(current_route, 0))
         ELSE routes
    ELSE LET customer == Head(customers)
             demand == PyGet(p.demands, customer)
         IN  IF current_load + demand > p.vehicle_capacity
             THEN SplitLoop(p, Tail(customers), Append(routes, Append(current_route, 0)),
                            <<0, customer>>, demand)
             ELSE SplitLoop(p, Tail(customers), routes,
                            Append(current_route, customer), current_load + demand)

split_to_routes(p, customers) == SplitLoop(p, customers, <<>>, <<0>>, 0)

-----------------------------------------------------------------------------
(* Direct calls of the two pure routines *)

NoCall == [op |-> "none", arg |-> <<>>, result |-> <<>>]

\* the generator where its draws are not followed: a draw is any value it can give
Unobserved == [seed |-> 0, state |-> 0, log |-> <<>>]

Idle == [pc |-> "idle"]

\* candidate solutions handed to validate_solution: any list of lists of integers
Candidates(p) == SeqsUpTo(SeqsUpTo(-1..(NumCustomers(p) + 1), MaxRouteLen), MaxRoutes)

\* orderings handed to _split_to_routes: any permutation of the customers
Orderings(p) == Perms(1..NumCustomers(p))

ValidateInit ==
    /\ cvrp \in Problems(MaxValCustomers)
    /\ call \in {[op |-> "validate", arg |-> a, result |-> "pending"] : a \in Candidates(cvrp)}
    /\ greedy = Idle /\ rnd = Idle /\ ga = Idle /\ sa = Idle /\ tabu = Idle /\ random = Unobserved

Validate ==
    /\ call.op = "validate" /\ call.result = "pending"
    /\ call' = [call EXCEPT !.result = validate_solution(cvrp, call.arg)]
    /\ UNCHANGED <<cvrp, greedy, rnd, ga, sa, tabu, random>>

ValidateSpec == ValidateInit /\ [][Validate]_vars

SplitInit ==
    /\ cvrp \in Problems(MaxSplitLen)
    /\ call \in {[op |-> "split", arg |-> a, result |-> "pending"] : a \in Orderings(cvrp)}
    /\ greedy = Idle /\ rnd = Idle /\ ga = Idle /\ sa = Idle /\ tabu = Idle /\ random = Unobserved

Split ==
    /\ call.op = "split" /\ call.result = "pending"
    /\ call' = [call EXCEPT !.result = split_to_routes(cvrp, call.arg)]
    /\ UNCHANGED <<cvrp, greedy, rnd, ga, sa, tabu, random>>

SplitSpec == SplitInit /\ [][Split]_vars

\* no CVRP object constructed yet
NoCVRP == [locations |-> <<>>, demands |-> <<>>, vehicle_capacity |-> 0,
           distance_matrix |-> <<>>]

\* the lists handed to CVRP(depot, locations, demands, vehicle_capacity): any list of
\* coordinates with any list of demands, of equal length or not
ConstructInit ==
    /\ cvrp = NoCVRP
    /\ call \in {[op |-> "construct",
                   arg |-> [locations |-> SubSeq(CustomerCoords, 1, n), demands |-> d,
                            vehicle_capacity |-> c],
                   result |-> "pending"] :
                     n \in 0..MaxCustomers, d \in SeqsUpTo(1..MaxDemand, MaxCustomers),
                     c \in 1..MaxCapacity}
    /\ greedy = Idle /\ rnd = Idle /\ ga = Idle /\ sa = Idle /\ tabu = Idle /\ random = Unobserved

\* CVRP.__init__: the attributes are assigned and the distance matrix built; no statement
\* of it looks at the lengths of the lists
Construct ==
    /\ call.op = "construct" /\ call.result = "pending"
    /\ cvrp' = CVRP(Depot, call.arg.locations, call.arg.demands, call.arg.vehicle_capacity)
    /\ call' = [call EXCEPT !.result = "constructed"]
    /\ UNCHANGED <<greedy, rnd, ga, sa, tabu, random>>

ConstructSpec == ConstructInit /\ [][Construct]_vars

-----------------------------------------------------------------------------
(* random_algorithm.py *)

\* RandomAlgorithm.__init__ and the locals of run() before its loop; best_solution None is
\* the empty list here and is overwritten by the first iteration (cost < inf)
RandomAlgorithm(num_iterations) ==
    [pc |-> "run", num_iterations |-> num_iterations, i |-> 0,
     best_solution |-> <<>>, best_cost |-> Inf, costs |-> <<>>,
     result |-> [best_solution |-> <<>>, best_distance |-> Inf]]

RandomInit ==
    /\ cvrp \in Problems(MaxCustomers)
    /\ rnd \in {RandomAlgorithm(n) : n \in 1..MaxIterations}
    /\ call = NoCall /\ greedy = Idle /\ ga = Idle /\ sa = Idle /\ tabu = Idle /\ random = Unobserved

\* one iteration of the loop of RandomAlgorithm.run
RandomIterate ==
    /\ rnd.pc = "run" /\ rnd.i < rnd.num_iterations
    /\ \E customers \in Perms(1..NumCustomers(cvrp)) :
          LET solution == split_to_routes(cvrp, customers)
              cost == calculate_cost(cvrp, solution)
          IN  rnd' = [rnd EXCEPT !.i = @ + 1,
                                 !.costs = Append(@, cost),
                                 !.best_cost = IF cost < @ THEN cost ELSE @,
                                 !.best_solution = IF cost < rnd.best_cost THEN solution ELSE @]
    /\ UNCHANGED <<cvrp, call, greedy, ga, sa, tabu, random>>

\* RandomAlgorithm._prepare_results
RandomReturn ==
    /\ rnd.pc = "run" /\ rnd.i = rnd.num_iterations
    /\ rnd' = [rnd EXCEPT !.pc = "done",
                           !.result = [best_solution |-> rnd.best_solution,
                                       best_distance |-> MinSeq(rnd.costs)]]
    /\ UNCHANGED <<cvrp, call, greedy, ga, sa, tabu, random>>

RandomNext == RandomIterate \/ RandomReturn

RandomSpec == RandomInit /\ [][RandomNext]_vars

-----------------------------------------------------------------------------
(* greedy_algorithm.py *)

\* GreedyAlgorithm.__init__ and the locals of run() and _greedy_solution(); passes is the
\* parity of the number of passes of "while customers"
GreedyAlgorithm(num_runs) ==
    [pc |-> "start", num_runs |-> num_runs, solutions |-> <<>>, costs |-> <<>>,
     customers |-> <<>>, routes |-> <<>>, current_route |-> <<0>>, current_load |-> 0,
     passes |-> 0,
     result |-> [best_solution |-> <<>>, best_distance |-> Inf]]

GreedyInit ==
    /\ cvrp \in Problems(MaxCustomers)
    /\ greedy \in {GreedyAlgorithm(n) : n \in 1..MaxRestarts}
    /\ call = NoCall /\ rnd = Idle /\ ga = Idle /\ sa = Idle /\ tabu = Idle /\ random = Unobserved

\* GreedyAlgorithm._calculate_cost
greedy_calculate_cost(p, solution) ==
    IF solution = <<>> THEN Inf ELSE calculate_cost(p, solution)

\* min(candidates, key=...): the first candidate of least key
RECURSIVE MinByKey(_, _)
MinByKey(candidates, key) ==
    IF Len(candidates) = 1 THEN candidates[1]
    ELSE LET rest == MinByKey(Tail(candidates), key)
         IN  IF key[Head(candidates)] <= key[rest] THEN Head(candidates) ELSE rest

\* list.remove(x): without the first occurrence of x
RECURSIVE Remove(_, _)
Remove(s, x) ==
    IF s = <<>> THEN <<>>
    ELSE IF Head(s) = x THEN Tail(s) ELSE <<Head(s)>> \o Remove(Tail(s), x)

\* np.argmin(costs): the first index (from 1) of the least cost
ArgMin(costs) == CHOOSE i \in 1..Len(costs) :
    /\ \A j \in 1..Len(costs) : costs[i] <= costs[j]
    /\ \A j \in 1..(i - 1) : costs[j] > costs[i]

\* the candidates taken by demand alone, the load of the current route forgotten
CandidatesIgnoringLoad(p, customers, current_load) ==
    SelectSeq(customers, LAMBDA c : p.demands[c + 1] <= p.vehicle_capacity)

\* the candidates of one pass of the while loop, in the order of customers
Candidates4(p, customers, current_load) ==
    SelectSeq(customers, LAMBDA c : p.demands[c + 1] + current_load <= p.vehicle_capacity)

\* start of _greedy_solution: the shuffled customers, an empty route at the depot
GreedyShuffle ==
    /\ greedy.pc = "start" /\ Len(greedy.costs) < greedy.num_runs
    /\ \E customers \in Perms(1..NumCustomers(cvrp)) :
          greedy' = [greedy EXCEPT !.pc = "loop", !.customers = customers, !.routes = <<>>,
                                   !.current_route = <<0>>, !.current_load = 0,
                                   !.passes = 0]
    /\ UNCHANGED <<cvrp, call, rnd, ga, sa, tabu, random>>

\* one pass of "while customers"; of the closed routes only the first MaxCustomers + 2
\* are kept
GreedyStep ==
    /\ greedy.pc = "loop" /\ greedy.customers # <<>>
    /\ LET last_city == greedy.current_route[Len(greedy.current_route)]
           candidates == Candidates4(cvrp, greedy.customers, greedy.current_load)
       IN  IF candidates = <<>>
           THEN greedy' = [greedy EXCEPT !.routes = IF Len(@) < MaxCustomers + 2
                                                    THEN Append(@, Append(greedy.current_route, 0))
                                                    ELSE @,
                                         !.current_route = <<0>>, !.current_load = 0,
                                         !.passes = 1 - @]
           ELSE LET next_city == MinByKey(candidates, cvrp.distance_matrix[last_city])
                IN  greedy' = [greedy EXCEPT !.passes = 1 - @,
                                             !.current_route = Append(@, next_city),
                                             !.current_load = @ + cvrp.demands[next_city + 1],
                                             !.customers = Remove(@, next_city)]
    /\ UNCHANGED <<cvrp, call, rnd, ga, sa, tabu, random>>

\* end of _greedy_solution (the final route is closed) and the rest of the pass of run()
GreedyEndRestart ==
    /\ greedy.pc = "loop" /\ greedy.customers = <<>>
    /\ LET solution == IF Len(greedy.current_route) > 1
                       THEN Append(greedy.routes, Append(greedy.current_route, 0))
                       ELSE greedy.routes
           cost == greedy_calculate_cost(cvrp, solution)
       IN  greedy' = [greedy EXCEPT !.pc = "start", !.solutions = Append(@, solution),
                                    !.costs = Append(@, cost), !.passes = 0,
                                    !.routes = <<>>, !.current_route = <<0>>, !.current_load = 0]
    /\ UNCHANGED <<cvrp, call, rnd, ga, sa, tabu, random>>

\* after the loop of run(): np.argmin and _prepare_results
GreedyReturn ==
    /\ greedy.pc = "start" /\ Len(greedy.costs) = greedy.num_runs
    /\ greedy' = [greedy EXCEPT !.pc = "done",
                                 !.result = [best_solution |-> greedy.solutions[ArgMin(greedy.costs)],
                                             best_distance |-> MinSeq(greedy.costs)]]
    /\ UNCHANGED <<cvrp, call, rnd, ga, sa, tabu, random>>

GreedyNext == GreedyShuffle \/ GreedyStep \/ GreedyEndRestart \/ GreedyReturn

GreedySpec == GreedyInit /\ [][GreedyNext]_vars

\* coordinates of customers of which no two are at the same distance from a third
\* location
TieFreeCoords == << <<0, 1>>, <<0, 2>>, <<1, 3>>, <<2, 3>> >>

\* the problems with at most maxN customers at these coordinates
TieFreeProblems(maxN) ==
    UNION {{CVRP(Depot, SubSeq(TieFreeCoords, 1, n), d, c) :
                d \in [1..n -> 1..MaxDemand], c \in 1..MaxCapacity} : n \in 0..maxN}

\* GreedyAlgorithm on problems with and without ties between distances
GreedyTieInit ==
    /\ cvrp \in Problems(MaxCustomers) \cup TieFreeProblems(MaxCustomers)
    /\ greedy \in {GreedyAlgorithm(n) : n \in 1..MaxRestarts}
    /\ call = NoCall /\ rnd = Idle /\ ga = Idle /\ sa = Idle /\ tabu = Idle /\ random = Unobserved

GreedyTieSpec == GreedyTieInit /\ [][GreedyNext]_vars

\* the loop of a single-threaded run always takes its next step
GreedyFairSpec == GreedySpec /\ WF_vars(GreedyNext)

-----------------------------------------------------------------------------
(* simulated_annealing.py *)
(* A temperature is a power of ten, kept as its exponent: initial_temp = 10^e (1000 is  *)
(* the default) and cooling_rate = 10^-c, so that temp *= cooling_rate is exact.        *)

InitialTempExps == {3, -6}
CoolingRateExps == {1, 8, 300}

Pow10(n) == [k \in 0..5 |-> 10 ^ k][n]

\* SimulatedAnnealing.__init__ and the locals of run() before its loop
SimulatedAnnealing(initial_temp, cooling_rate, iterations) ==
    [pc |-> "start", iterations |-> iterations, cooling_rate |-> cooling_rate, i |-> 0,
     current_solution |-> <<>>, current_cost |-> 0, best_solution |-> <<>>, best_cost |-> 0,
     temp |-> initial_temp, delta |-> 0, accepted |-> FALSE,
     result |-> [best_solution |-> <<>>, best_distance |-> Inf]]

SAInit ==
    /\ cvrp \in UniformProblems(MaxCustomers)
    /\ sa \in {SimulatedAnnealing(t, c, n) :
                  t \in InitialTempExps, c \in CoolingRateExps, n \in 1..MaxIterations}
    /\ call = NoCall /\ greedy = Idle /\ rnd = Idle /\ ga = Idle /\ tabu = Idle /\ random = Unobserved

\* new_flat: flat with positions i and j swapped
Swap(flat, i, j) == [flat EXCEPT ![i] = flat[j], ![j] = flat[i]]

\* random.sample(range(n), 2): the ordered pairs of distinct positions
SamplePairs(n) == {ij \in (1..n) \X (1..n) : ij[1] # ij[2]}

\* SimulatedAnnealing._get_neighbor: the neighbour for every outcome of random.sample
get_neighbor(p, solution) ==
    LET flat == InteriorNodes(solution)
    IN  IF Len(flat) < 2 THEN {solution}
        ELSE {split_to_routes(p, Swap(flat, ij[1], ij[2])) : ij \in SamplePairs(Len(flat))}

\* temp == 0.0, where -delta / temp raises ZeroDivisionError
TempIsZero(temp) == temp < FloatMinExp

\* math.exp(-delta / temp) == 0.0 for delta > 0 (delta in 1/Scale, temp an exponent of ten)
ExpIsZero(delta, temp) ==
    IF temp >= 0 THEN delta > ExpUnderflow * Scale * Pow10(temp)
    ELSE IF temp < -5 THEN TRUE
    ELSE delta * Pow10(-temp) > ExpUnderflow * Scale

\* MetropolisOutcomes with the sign of the exponent lost: exp(delta / temp) >= 1
MetropolisSignLost(delta, temp) == {TRUE}

\* the values random.random() < math.exp(-delta / temp) can take, for delta >= 0 and
\* temp > 0: random() ranges over [0, 1), exp(-0) is 1.0
MetropolisOutcomes(delta, temp) ==
    IF delta = 0 THEN {TRUE}
    ELSE IF ExpIsZero(delta, temp) THEN {FALSE}
    ELSE {TRUE, FALSE}

\* start of run(): _create_initial_solution and the initial best
SAStart ==
    /\ sa.pc = "start"
    /\ \E customers \in Perms(1..NumCustomers(cvrp)) :
          LET current_solution == split_to_routes(cvrp, customers)
              current_cost == calculate_cost(cvrp, current_solution)
          IN  sa' = [sa EXCEPT !.pc = "loop",
                               !.current_solution = current_solution,
                               !.current_cost = current_cost,
                               !.best_solution = current_solution,
                               !.best_cost = current_cost]
    /\ UNCHANGED <<cvrp, call, greedy, rnd, ga, tabu, random>>

\* the state after one iteration that accepts (or not) the neighbour new_solution
SAAfter(new_solution, new_cost, delta, accept) ==
    [sa EXCEPT !.i = @ + 1,
               !.delta = delta,
               !.accepted = accept,
               !.current_solution = IF accept THEN new_solution ELSE @,
               !.current_cost = IF accept THEN new_cost ELSE @,
               !.best_solution = IF accept /\ new_cost < sa.best_cost THEN new_solution ELSE @,
               !.best_cost = IF accept /\ new_cost < sa.best_cost THEN new_cost ELSE @,
               !.temp = @ - sa.cooling_rate]

\* one iteration of the loop of SimulatedAnnealing.run
SAIterate ==
    /\ sa.pc = "loop" /\ sa.i < sa.iterations
    /\ \E new_solution \in get_neighbor(cvrp, sa.current_solution) :
          LET new_cost == calculate_cost(cvrp, new_solution)
              delta == new_cost - sa.current_cost
          IN  IF delta < 0
              THEN sa' = SAAfter(new_solution, new_cost, delta, TRUE)
              ELSE IF TempIsZero(sa.temp)
              THEN sa' = [sa EXCEPT !.pc = "ZeroDivisionError", !.delta = delta,
                                    !.accepted = FALSE]
              ELSE \E accept \in MetropolisOutcomes(delta, sa.temp) :
                      sa' = SAAfter(new_solution, new_cost, delta, accept)
    /\ UNCHANGED <<cvrp, call, greedy, rnd, ga, tabu, random>>

\* SimulatedAnnealing._prepare_results
SAReturn ==
    /\ sa.pc = "loop" /\ sa.i = sa.iterations
    /\ sa' = [sa EXCEPT !.pc = "done",
                         !.result = [best_solution |-> sa.best_solution,
                                     best_distance |-> sa.best_cost]]
    /\ UNCHANGED <<cvrp, call, greedy, rnd, ga, tabu, random>>

SANext == SAStart \/ SAIterate \/ SAReturn

SASpec == SAInit /\ [][SANext]_vars

-----------------------------------------------------------------------------
(* tabu_search.py *)

\* str(route) as a sequence of tokens: -2 for "[", -3 for "]"
StrList(route) == <<-2>> \o route \o <<-3>>

\* str(solution) of a list of routes
Str(solution) ==
    <<-2>> \o Concat([r \in 1..Len(solution) |-> StrList(solution[r])]) \o <<-3>>

\* the last two elements of a sequence
LastTwo(s) == IF Len(s) <= 2 THEN s ELSE SubSeq(s, Len(s) - 1, Len(s))

\* TabuSearch.__init__ and the locals of run() before its loop; visited is current_solution
\* at the end of the last three iterations (the initial solution counting as one),
\* lowest the least cost among the neighbours of the last iteration, all_tabu whether
\* str() of every one of them was in the tabu list, chosen the str() of every
\* best_candidate that was not None, in the order of the iterations
TabuSearch(iterations, tabu_size, neighborhood_size) ==
    [pc |-> "start", iterations |-> iterations, tabu_size |-> tabu_size,
     neighborhood_size |-> neighborhood_size, i |-> 0, tabu_list |-> <<>>,
     stats |-> [best |-> <<>>, current |-> <<>>, worst |-> <<>>],
     current_solution |-> <<>>, current_cost |-> 0, best_solution |-> <<>>, best_cost |-> 0,
     visited |-> <<>>, lowest |-> 0, all_tabu |-> FALSE, chosen |-> <<>>,
     result |-> [best_solution |-> <<>>, best_distance |-> Inf]]

TabuInit ==
    /\ cvrp \in UniformProblems(MaxCustomers)
    /\ tabu \in {TabuSearch(n, m, k) :
                    n \in {MaxTabuIterations}, m \in 0..MaxTabuSize, k \in 1..MaxNeighbors}
    /\ call = NoCall /\ greedy = Idle /\ rnd = Idle /\ ga = Idle /\ sa = Idle /\ random = Unobserved

\* TabuSearch._generate_neighbors followed by "Evaluate all neighbors": the lists
\* neighbor_costs of (neighbor, cost) pairs that can result, each with whether
\* str(neighbor) is in the tabu list
neighbor_costs(p, solution, tabu_list, neighborhood_size) ==
    LET Evaluated(n) == [solution |-> n, cost |-> calculate_cost(p, n),
                         is_tabu |-> Str(n) \in SeqToSet(tabu_list)]
    IN  IF Len(InteriorNodes(solution)) < 2
        THEN {<<Evaluated(solution)>>}
        ELSE [1..neighborhood_size -> {Evaluated(n) : n \in get_neighbor(p, solution)}]

\* the loop without its test of the tabu list
RECURSIVE BestCandidateIgnoringTabu(_, _)
BestCandidateIgnoringTabu(neighbors, best) ==
    IF neighbors = <<>> THEN best
    ELSE LET neighbor == Head(neighbors)
         IN  IF neighbor.cost < best.cost
             THEN BestCandidateIgnoringTabu(Tail(neighbors),
                      [found |-> TRUE, solution |-> neighbor.solution, cost |-> neighbor.cost])
             ELSE BestCandidateIgnoringTabu(Tail(neighbors), best)

\* the loop "Find best non-tabu neighbor": None is found = FALSE
RECURSIVE BestCandidate(_, _)
BestCandidate(neighbors, best) ==
    IF neighbors = <<>> THEN best
    ELSE LET neighbor == Head(neighbors)
         IN  IF neighbor.cost < best.cost /\ ~neighbor.is_tabu
             THEN BestCandidate(Tail(neighbors),
                      [found |-> TRUE, solution |-> neighbor.solution, cost |-> neighbor.cost])
             ELSE BestCandidate(Tail(neighbors), best)

NoCandidate == [found |-> FALSE, solution |-> <<>>, cost |-> Inf]

\* "if best_candidate:" is false for None and for the empty list
Truthy(candidate) == candidate.found /\ candidate.solution # <<>>

\* UpdateTabuList without the pop(0) of the oldest signature
UpdateTabuListNoPop(tabu_list, candidate, tabu_size) ==
    Append(tabu_list, Str(candidate.solution))

\* self.tabu_list after the append and the pop(0) of an accepted candidate
UpdateTabuList(tabu_list, candidate, tabu_size) ==
    LET appended == Append(tabu_list, Str(candidate.solution))
    IN  IF Len(appended) > tabu_size THEN Tail(appended) ELSE appended

\* TabuSearch._update_stats
tabu_update_stats(stats, best_cost, current_cost) ==
    [best    |-> Append(stats.best, best_cost),
     current |-> Append(stats.current, current_cost),
     worst   |-> Append(stats.worst, MaxSeq(Append(stats.best, best_cost) \o <<current_cost>>))]

\* start of run(): _create_initial_solution and the initial best
TabuStart ==
    /\ tabu.pc = "start"
    /\ \E customers \in Perms(1..NumCustomers(cvrp)) :
          LET current_solution == split_to_routes(cvrp, customers)
              current_cost == calculate_cost(cvrp, current_solution)
          IN  tabu' = [tabu EXCEPT !.pc = "loop",
                                   !.current_solution = current_solution,
                                   !.current_cost = current_cost,
                                   !.best_solution = current_solution,
                                   !.best_cost = current_cost,
                                   !.visited = <<current_solution>>]
    /\ UNCHANGED <<cvrp, call, greedy, rnd, ga, sa, random>>

\* the state after an iteration that chose candidate among neighbours of least cost lowest
TabuAfter(candidate, lowest) ==
    LET improved == candidate.cost < tabu.best_cost
        best_cost == IF improved THEN candidate.cost ELSE tabu.best_cost
        moved == Truthy(candidate)
        current_cost == IF moved THEN candidate.cost ELSE tabu.current_cost
        current_solution == IF moved THEN candidate.solution ELSE tabu.current_solution
    IN  [tabu EXCEPT
            !.i = @ + 1,
            !.best_solution = IF improved THEN candidate.solution ELSE @,
            !.best_cost = best_cost,
            !.tabu_list = IF moved THEN UpdateTabuList(@, candidate, tabu.tabu_size) ELSE @,
            !.current_solution = current_solution,
            !.current_cost = current_cost,
            !.stats = tabu_update_stats(@, best_cost, current_cost),
            !.visited = LastTwo(@) \o <<current_solution>>,
            !.lowest = lowest,
            !.chosen = IF candidate.found THEN Append(@, Str(candidate.solution)) ELSE @]

\* one iteration of the loop of TabuSearch.run
TabuIterate ==
    /\ tabu.pc = "loop" /\ tabu.i < tabu.iterations
    /\ \E chosen \in {[candidate |-> BestCandidate(neighbors, NoCandidate),
                        lowest |-> MinSeq([k \in 1..Len(neighbors) |-> neighbors[k].cost]),
                        all_tabu |-> \A k \in 1..Len(neighbors) : neighbors[k].is_tabu] :
                       neighbors \in neighbor_costs(cvrp, tabu.current_solution,
                                       tabu.tabu_list, tabu.neighborhood_size)} :
          tabu' = [TabuAfter(chosen.candidate, chosen.lowest) EXCEPT
                      !.all_tabu = chosen.all_tabu]
    /\ UNCHANGED <<cvrp, call, greedy, rnd, ga, sa, random>>

\* TabuSearch._prepare_results
TabuReturn ==
    /\ tabu.pc = "loop" /\ tabu.i = tabu.iterations
    /\ tabu' = [tabu EXCEPT !.pc = "done",
                             !.result = [best_solution |-> tabu.best_solution,
                                         best_distance |-> tabu.best_cost]]
    /\ UNCHANGED <<cvrp, call, greedy, rnd, ga, sa, random>>

TabuNext == TabuStart \/ TabuIterate \/ TabuReturn

TabuSpec == TabuInit /\ [][TabuNext]_vars

\* runs of one iteration more on problems of one customer fewer, with a tabu list that
\* can hold a signature
TabuLongInit ==
    /\ cvrp \in UniformProblems(MaxCustomers - 1)
    /\ tabu \in {TabuSearch(MaxTabuIterations + 1, m, k) :
                    m \in 1..MaxTabuSize, k \in 1..MaxNeighbors}
    /\ call = NoCall /\ greedy = Idle /\ rnd = Idle /\ ga = Idle /\ sa = Idle
    /\ random = Unobserved

TabuLongSpec == TabuLongInit /\ [][TabuNext]_vars

\* the runs of TabuSearch(cvrp, tabu_size=0)
TabuSize0Init == TabuInit /\ tabu.tabu_size = 0

TabuSize0Spec == TabuSize0Init /\ [][TabuNext]_vars

-----------------------------------------------------------------------------
(* genetic_algorithm.py *)
(* A rate is kept in percent: mutation_rate 0.1 is 10, crossover_rate 0.8 is 80. *)

MutationRates == {0, 10, 100}
CrossoverRates == {0, 80, 100}
ElitismRates == {10, 50, 100}

\* the values random.random() < rate can take: random() ranges over [0, 1)
RateOutcomes(rate) ==
    IF rate <= 0 THEN {FALSE} ELSE IF rate >= 100 THEN {TRUE} ELSE {TRUE, FALSE}

\* GeneticAlgorithm.__init__ up to the call of _initialize_population, and the locals of
\* run(); passes is the parity of the number of passes of the offspring loop
GeneticAlgorithm(pop_size, generations, mutation_rate, crossover_rate, tournament_size, elitism) ==
    [pc |-> "init", pop_size |-> pop_size, generations |-> generations,
     mutation_rate |-> mutation_rate, crossover_rate |-> crossover_rate,
     tournament_size |-> tournament_size, elitism |-> (elitism * pop_size) \div 100,
     population |-> <<>>, new_pop |-> <<>>, gen |-> 0, passes |-> 0,
     stats |-> [best |-> <<>>, worst |-> <<>>],
     result |-> [best_solution |-> <<>>, best_distance |-> Inf]]

GAInit ==
    /\ cvrp \in UniformProblems(MaxCustomers)
    /\ ga \in {GeneticAlgorithm(n, MaxGenerations, m, c, k, e) :
                  n \in 1..MaxPop, m \in MutationRates, c \in CrossoverRates,
                  k \in 1..MaxTournament, e \in ElitismRates}
    /\ call = NoCall /\ greedy = Idle /\ rnd = Idle /\ sa = Idle /\ tabu = Idle /\ random = Unobserved

\* [node for route in solution for node in route if node != 0]
Flat(solution) == Filter0(Concat(solution))

\* one pass of the loop of _initialize_population: _generate_random_solution, kept if valid
GAInitializePopulation ==
    /\ ga.pc = "init"
    /\ IF Len(ga.population) < ga.pop_size
       THEN \E customers \in Perms(1..NumCustomers(cvrp)) :
               LET solution == split_to_routes(cvrp, customers)
               IN  ga' = [ga EXCEPT !.population =
                              IF validate_solution(cvrp, solution) = "True"
                              THEN Append(@, solution) ELSE @]
       ELSE ga' = [ga EXCEPT !.pc = "gen"]
    /\ UNCHANGED <<cvrp, call, greedy, rnd, sa, tabu, random>>

\* list.sort(key=...): stable insertion of x into a sorted list
RECURSIVE InsertByKey(_, _, _)
InsertByKey(sorted, x, p) ==
    IF sorted = <<>> THEN <<x>>
    ELSE IF calculate_cost(p, x) < calculate_cost(p, Head(sorted))
         THEN <<x>> \o sorted
         ELSE <<Head(sorted)>> \o InsertByKey(Tail(sorted), x, p)

\* the population left in the order it has
SortSkipped(population, p) == population

\* self.population.sort(key=lambda x: self._calculate_fitness(x))
RECURSIVE SortByFitness(_, _)
SortByFitness(population, p) ==
    IF population = <<>> THEN <<>>
    ELSE InsertByKey(SortByFitness(DropLast(population), p), population[Len(population)], p)

\* fitness of every individual
Fitness(p, population) == [k \in 1..Len(population) |-> calculate_cost(p, population[k])]

\* _tournament_selection: the winners that random.sample can lead to; {} when it raises
\* ValueError (sample larger than population)
tournament_selection(p, population, tournament_size) ==
    IF tournament_size > Len(population) THEN {}
    ELSE {population[MinByKey(sample, Fitness(p, population))] :
            sample \in {q \in [1..tournament_size -> 1..Len(population)] :
                           \A a, b \in 1..tournament_size : q[a] = q[b] => a = b}}

\* the fill loop of _ordered_crossover (positions from 0, as in the code)
RECURSIVE CrossoverFill(_, _, _, _, _, _)
CrossoverFill(i, ptr, child, flat2, start, end) ==
    LET size == Len(child)
        ptr1 == IF ptr = start THEN end ELSE ptr
    IN  IF i >= size \/ ptr1 >= size THEN child
        ELSE IF flat2[i + 1] \notin {child[k] : k \in (start + 1)..end}
             THEN CrossoverFill(i + 1, ptr1 + 1, [child EXCEPT ![ptr1 + 1] = flat2[i + 1]],
                                flat2, start, end)
             ELSE CrossoverFill(i + 1, ptr1, child, flat2, start, end)

\* the child ordering of _ordered_crossover for the cut points start < end
crossover_child(flat1, flat2, start, end) ==
    CrossoverFill(0, 0, [k \in 1..Len(flat1) |-> IF start < k /\ k <= end THEN flat1[k] ELSE -1],
                  flat2, start, end)

\* _ordered_crossover: the children that random.sample can lead to; {} when it raises
\* ValueError (fewer than two positions to sample)
ordered_crossover(p, parent1, parent2) ==
    LET flat1 == DropLast(Flat(parent1))
        flat2 == DropLast(Flat(parent2))
        size == Len(flat1)
    IN  IF size < 2 THEN {}
        ELSE {split_to_routes(p, crossover_child(flat1, flat2, c[1], c[2])) :
                c \in {x \in (0..(size - 1)) \X (0..(size - 1)) : x[1] < x[2]}}

\* _mutate when random.random() < self.mutation_rate; {} when random.sample raises
mutate_swap(p, solution) ==
    LET flat == Flat(solution)
    IN  IF Len(flat) < 2 THEN {}
        ELSE {split_to_routes(p, Swap(flat, ij[1], ij[2])) : ij \in SamplePairs(Len(flat))}

\* the elites lost: one fewer than self.elitism is carried over
ElitesOffByOne(sorted, elitism) == SubSeq(sorted, 1, elitism - 1)

\* new_pop = self.population[:self.elitism]
Elites(sorted, elitism) == SubSeq(sorted, 1, Min2(elitism, Len(sorted)))

\* top of the generation loop of run(): statistics, sort, elites; with pop_size elites the
\* offspring loop is skipped and the generation ends here
GAGeneration ==
    /\ ga.pc = "gen" /\ ga.gen < ga.generations
    /\ LET fitness == Fitness(cvrp, ga.population)
           sorted == SortByFitness(ga.population, cvrp)
           new_pop == Elites(sorted, ga.elitism)
           stats == [best |-> Append(ga.stats.best, MinSeq(fitness)),
                     worst |-> Append(ga.stats.worst, MaxSeq(fitness))]
       IN  IF Len(new_pop) < ga.pop_size
           THEN ga' = [ga EXCEPT !.pc = "offspring", !.stats = stats,
                                 !.population = sorted, !.new_pop = new_pop]
           ELSE ga' = [ga EXCEPT !.stats = stats, !.population = new_pop,
                                 !.new_pop = <<>>, !.gen = @ + 1]
    /\ UNCHANGED <<cvrp, call, greedy, rnd, sa, tabu, random>>

\* the state after the offspring loop has produced child
GAAfterChild(child) ==
    IF validate_solution(cvrp, child) # "True" THEN [ga EXCEPT !.passes = 1 - @]
    ELSE IF Len(ga.new_pop) + 1 < ga.pop_size
         THEN [ga EXCEPT !.new_pop = Append(@, child), !.passes = 1 - @]
         ELSE [ga EXCEPT !.pc = "gen", !.population = Append(ga.new_pop, child),
                         !.new_pop = <<>>, !.gen = @ + 1, !.passes = 0]

GARaise == [ga EXCEPT !.pc = "ValueError"]

\* one pass of the offspring loop of run(): selection, crossover, mutation, validation
GAOffspring ==
    /\ ga.pc = "offspring"
    /\ LET parents == tournament_selection(cvrp, ga.population, ga.tournament_size)
       IN  IF parents = {} THEN ga' = GARaise
           ELSE \E parent1 \in parents, parent2 \in parents,
                   cross \in RateOutcomes(ga.crossover_rate),
                   mutation \in RateOutcomes(ga.mutation_rate) :
                   LET children == IF cross THEN ordered_crossover(cvrp, parent1, parent2)
                                   ELSE {parent1}
                   IN  IF children = {} THEN ga' = GARaise
                       ELSE \E child \in children :
                               IF ~mutation THEN ga' = GAAfterChild(child)
                               ELSE IF mutate_swap(cvrp, child) = {} THEN ga' = GARaise
                               ELSE \E mutant \in mutate_swap(cvrp, child) :
                                       ga' = GAAfterChild(mutant)
    /\ UNCHANGED <<cvrp, call, greedy, rnd, sa, tabu, random>>

\* end of run(): the best individual of the final population
GAReturn ==
    /\ ga.pc = "gen" /\ ga.gen = ga.generations
    /\ LET final_fitness == Fitness(cvrp, ga.population)
       IN  ga' = [ga EXCEPT !.pc = "done",
                     !.result = [best_solution |->
                                     ga.population[MinByKey([k \in 1..Len(ga.population) |-> k],
                                                            final_fitness)],
                                 best_distance |-> MinSeq(final_fitness)]]
    /\ UNCHANGED <<cvrp, call, greedy, rnd, sa, tabu, random>>

GANext == GAInitializePopulation \/ GAGeneration \/ GAOffspring \/ GAReturn

GASpec == GAInit /\ [][GANext]_vars

\* GeneticAlgorithm with pop_size = 1
GAPop1Init == GAInit /\ ga.pop_size = 1

\* a pass of the offspring loop whose child passes validation and is appended
GAOffspringAccepted ==
    GAOffspring /\ (Len(ga'.new_pop) > Len(ga.new_pop) \/ ga'.pc = "gen")

\* the loops of a single-threaded run always take their next step, and random draws are
\* fair: a child that can be drawn again and again and passes validation is eventually
\* drawn
\* (with pop_size = 1, on problems of MaxCustomers customers and with
\* tournament_size <= pop_size, where no draw of random.sample can raise)
GAFairInit ==
    /\ GAPop1Init
    /\ NumCustomers(cvrp) = MaxCustomers /\ ga.tournament_size <= ga.pop_size

GAPop1Spec == GAPop1Init /\ [][GANext]_vars

\* GeneticAlgorithm with pop_size = 2, at least one elite and tournament_size = 1, where
\* every child is made by crossover alone (when it is drawn) or, on the problems of
\* fewer than MaxCustomers customers, by mutation alone
GAElitesInit ==
    /\ GAInit
    /\ ga.pop_size = 2 /\ ga.elitism >= 1 /\ ga.tournament_size = 1
    /\ \/ ga.mutation_rate = 0 /\ ga.crossover_rate = 80
       \/ /\ ga.mutation_rate = 100 /\ ga.crossover_rate = 0
          /\ NumCustomers(cvrp) < MaxCustomers

GAElitesSpec == GAElitesInit /\ [][GANext]_vars

GAFairSpec ==
    GAFairInit /\ [][GANext]_vars /\ WF_vars(GANext) /\ SF_vars(GAOffspringAccepted)

\* a direct call of _ordered_crossover on two parents over the customers of cvrp, with
\* the cut points start < end that sorted(random.sample(range(size), 2)) can give (three
\* customers or more: with fewer, random.sample has no two positions to choose)
CrossoverInit ==
    /\ cvrp \in {p \in UniformProblems(MaxCustomers) : NumCustomers(p) >= 3}
    /\ call \in {[op |-> "crossover",
                   arg |-> [parent1 |-> split_to_routes(cvrp, o1),
                            parent2 |-> split_to_routes(cvrp, o2), start |-> c[1], end |-> c[2]],
                   result |-> "pending"] :
                     o1 \in Orderings(cvrp), o2 \in Orderings(cvrp),
                     c \in {x \in (0..MaxCustomers) \X (0..MaxCustomers) :
                              x[1] < x[2] /\ x[2] <= NumCustomers(cvrp) - 2}}
    /\ greedy = Idle /\ rnd = Idle /\ ga = Idle /\ sa = Idle /\ tabu = Idle /\ random = Unobserved

\* _ordered_crossover: ValueError when random.sample has fewer than two positions to
\* sample, else the pair of the child ordering and the routes split from it
Crossover ==
    /\ call.op = "crossover" /\ call.result = "pending"
    /\ LET flat1 == DropLast(Flat(call.arg.parent1))
           flat2 == DropLast(Flat(call.arg.parent2))
           child == crossover_child(flat1, flat2, call.arg.start, call.arg.end)
       IN  call' = [call EXCEPT !.result =
                       IF Len(flat1) < 2 THEN "ValueError"
                       ELSE <<child, split_to_routes(cvrp, child)>>]
    /\ UNCHANGED <<cvrp, greedy, rnd, ga, sa, tabu, random>>

CrossoverSpec == CrossoverInit /\ [][Crossover]_vars

-----------------------------------------------------------------------------
(* The module random: every strategy calls random.shuffle, random.sample and            *)
(* random.random, which draw from the one hidden generator of the module.  The          *)
(* generator is a deterministic function of its seed; here it is a linear congruential  *)
(* generator, and the log keeps which run consumed each of its outputs.                 *)

\* the state of the generator after one more output
Advance(state) == (13 * state + 7) % 64

\* the generator seeded with seed
Seeded(seed) == [seed |-> seed, state |-> seed, log |-> <<>>]

\* the k-th output of the generator seeded with seed
RECURSIVE Output(_, _)
Output(seed, k) == IF k = 0 THEN seed ELSE Advance(Output(seed, k - 1))

\* random._randbelow(n) called by run `by`: the value and the generator after it
randbelow(gen, n, by) ==
    LET state == Advance(gen.state)
    IN  [value |-> (state \div 8) % n,
         random |-> [gen EXCEPT !.state = state,
                                !.log = Append(@, [by |-> by, output |-> state])]]

\* random.shuffle(x): for i in reversed(range(1, len(x))): j = randbelow(i + 1); swap
RECURSIVE shuffle_from(_, _, _, _)
shuffle_from(gen, x, i, by) ==
    IF i < 1 THEN [value |-> x, random |-> gen]
    ELSE LET j == randbelow(gen, i + 1, by)
         IN  shuffle_from(j.random, Swap(x, i + 1, j.value + 1), i - 1, by)

shuffle(gen, x, by) == shuffle_from(gen, x, Len(x) - 1, by)

\* random.sample(range(n), 2) for n >= 2: two draws from the pool of positions (from 0)
sample2(gen, n, by) ==
    LET j1 == randbelow(gen, n, by)
        pool == [k \in 0..(n - 1) |-> IF k = j1.value THEN n - 1 ELSE k]
        j2 == randbelow(j1.random, n - 1, by)
    IN  [value |-> <<j1.value, pool[j2.value]>>, random |-> j2.random]

\* _create_initial_solution / _generate_random_solution: shuffle, then split
random_solution(gen, p, by) ==
    LET customers == shuffle(gen, [k \in 1..NumCustomers(p) |-> k], by)
    IN  [value |-> split_to_routes(p, customers.value), random |-> customers.random]

\* TabuSearch._generate_neighbors: the neighbours still to generate, after neighbors
RECURSIVE generate_neighbors(_, _, _, _, _)
generate_neighbors(gen, p, solution, left, neighbors) ==
    LET flat == InteriorNodes(solution)
    IN  IF left = 0
        THEN [value |-> IF neighbors = <<>> THEN <<solution>> ELSE neighbors, random |-> gen]
        ELSE IF Len(flat) < 2
             THEN generate_neighbors(gen, p, solution, left - 1, neighbors)
             ELSE LET ij == sample2(gen, Len(flat), "tabu")
                      neighbor == split_to_routes(p, Swap(flat, ij.value[1] + 1, ij.value[2] + 1))
                  IN  generate_neighbors(ij.random, p, solution, left - 1,
                                         Append(neighbors, neighbor))

\* a TabuSearch run and the construction of a GeneticAlgorithm on the same problem, their
\* steps interleaved; both draw from the generator of the module
SharedInit ==
    /\ cvrp \in {p \in UniformProblems(MaxCustomers) : p.demands[1 + NumCustomers(p)] = 1}
    /\ tabu \in {TabuSearch(MaxTabuIterations, m, k) : m \in {0, MaxTabuSize}, k \in 1..MaxNeighbors}
    /\ ga \in {GeneticAlgorithm(n, MaxGenerations, 10, 80, 1, 10) : n \in 1..MaxPop}
    /\ random \in {Seeded(seed) : seed \in 0..MaxSeed}
    /\ call = NoCall /\ greedy = Idle /\ rnd = Idle /\ sa = Idle

\* TabuStart with the draws of random.shuffle taken from the generator
SharedTabuStart ==
    /\ tabu.pc = "start"
    /\ LET initial == random_solution(random, cvrp, "tabu")
           current_cost == calculate_cost(cvrp, initial.value)
       IN  /\ tabu' = [tabu EXCEPT !.pc = "loop",
                                    !.current_solution = initial.value,
                                    !.current_cost = current_cost,
                                    !.best_solution = initial.value,
                                    !.best_cost = current_cost,
                                    !.visited = <<initial.value>>]
           /\ random' = initial.random
    /\ UNCHANGED <<cvrp, call, greedy, rnd, ga, sa>>

\* TabuIterate with the draws of random.sample taken from the generator
SharedTabuIterate ==
    /\ tabu.pc = "loop" /\ tabu.i < tabu.iterations
    /\ LET generated == generate_neighbors(random, cvrp, tabu.current_solution,
                                           tabu.neighborhood_size, <<>>)
           neighbors == [k \in 1..Len(generated.value) |->
                           [solution |-> generated.value[k],
                            cost |-> calculate_cost(cvrp, generated.value[k]),
                            is_tabu |-> Str(generated.value[k]) \in SeqToSet(tabu.tabu_list)]]
       IN  /\ tabu' = [TabuAfter(BestCandidate(neighbors, NoCandidate),
                                 MinSeq([k \in 1..Len(neighbors) |-> neighbors[k].cost]))
                           EXCEPT !.all_tabu = \A k \in 1..Len(neighbors) : neighbors[k].is_tabu]
           /\ random' = generated.random
    /\ UNCHANGED <<cvrp, call, greedy, rnd, ga, sa>>

\* GAInitializePopulation with the draws of random.shuffle taken from the generator
SharedGAInitializePopulation ==
    /\ ga.pc = "init"
    /\ IF Len(ga.population) < ga.pop_size
       THEN LET solution == random_solution(random, cvrp, "ga")
            IN  /\ ga' = [ga EXCEPT !.population =
                               IF validate_solution(cvrp, solution.value) = "True"
                               THEN Append(@, solution.value) ELSE @]
                /\ random' = solution.random
       ELSE ga' = [ga EXCEPT !.pc = "gen"] /\ random' = random
    /\ UNCHANGED <<cvrp, call, greedy, rnd, sa, tabu>>

SharedNext ==
    SharedTabuStart \/ SharedTabuIterate \/ TabuReturn \/ SharedGAInitializePopulation

SharedSpec == SharedInit /\ [][SharedNext]_vars

-----------------------------------------------------------------------------
(* Claims about the solutions that run() returns *)

\* the direct call of op has returned
Returned(op) == call.op = op /\ call.result # "pending"

\* C1: for every problem (any integer demands and capacity) and each of the five
\* strategies, the best solution returned by run() satisfies validate.
C1_ReturnedSolutionValid ==
    /\ greedy.pc = "done" => validate_solution(cvrp, greedy.result.best_solution) = "True"
    /\ rnd.pc = "done" => validate_solution(cvrp, rnd.result.best_solution) = "True"
    /\ ga.pc = "done" => validate_solution(cvrp, ga.result.best_solution) = "True"
    /\ sa.pc = "done" => validate_solution(cvrp, sa.result.best_solution) = "True"
    /\ tabu.pc = "done" => validate_solution(cvrp, tabu.result.best_solution) = "True"

\* run() has returned the empty solution with cost 0 or the infinite sentinel
EmptyResult(strategy) ==
    strategy.pc = "done" =>
        /\ strategy.result.best_solution = <<>>
        /\ strategy.result.best_distance \in {0, Inf}

\* C7: on a problem with zero customers every strategy's run() completes without raising
\* and returns an empty solution whose cost is 0 or the infinite sentinel.  (For the
\* genetic algorithm only runs with tournament_size <= pop_size are judged, so that the
\* tournament itself cannot raise.)
C7_ZeroCustomersNoError ==
    NumCustomers(cvrp) = 0 =>
        /\ EmptyResult(greedy) /\ EmptyResult(rnd) /\ EmptyResult(ga)
        /\ EmptyResult(sa) /\ EmptyResult(tabu)
        /\ sa.pc # "ZeroDivisionError"
        /\ (ga.pc # "idle" /\ ga.tournament_size <= ga.pop_size) => ga.pc # "ValueError"

-----------------------------------------------------------------------------
(* Claims about termination *)

\* C5: run() of the genetic algorithm always terminates after its generations: under fair
\* draws the offspring loop of every generation fills the new population, for every
\* crossover rate, mutation rate and elitism fraction.
C5_RunTerminates == (ga.pc = "gen") ~> (ga.pc = "done")

\* C6: every restart of the greedy algorithm terminates, for every demand vector and
\* capacity: the loop over the unrouted customers stops.
C6_RestartTerminates == (greedy.pc = "loop") ~> (greedy.pc = "start")

-----------------------------------------------------------------------------
(* Claims about the generations of GeneticAlgorithm *)

\* the best distance recorded for a generation is never above that of the one before
BestNeverIncreases ==
    \A k \in 1..(Len(ga.stats.best) - 1) : ga.stats.best[k + 1] <= ga.stats.best[k]

\* C8 as claimed: with population size 1 the best distance recorded for each generation
\* never increases from one generation to the next.
C8_Pop1BestNeverIncreases == ga.pop_size = 1 => BestNeverIncreases

\* C8 as amended: with population size 1 and the individual kept as an elite
\* (int(elitism * pop_size) >= 1), the best distance recorded for each generation never
\* increases from one generation to the next.
C8_Pop1EliteBestNeverIncreases ==
    (ga.pop_size = 1 /\ ga.elitism >= 1) => BestNeverIncreases

C8_Witness ==
    /\ ga.pop_size = 1 /\ ga.elitism >= 1 /\ ga.pc = "done"
    /\ NumCustomers(cvrp) >= 2 /\ Len(ga.stats.best) >= 2

\* the step ends a generation: self.population = new_pop
GenerationEnds == ga.pc \in {"gen", "offspring"} /\ ga'.gen = ga.gen + 1

\* the positions in population of a choice of its n lowest-fitness individuals
LowestFitness(population, n) ==
    {S \in SUBSET (1..Len(population)) :
        /\ Cardinality(S) = n
        /\ \A a \in S, b \in (1..Len(population)) \ S :
              calculate_cost(cvrp, population[a]) <= calculate_cost(cvrp, population[b])}

\* every individual at a position of S has a place of its own in next
MembersOf(population, S, next) ==
    \E place \in [S -> 1..Len(next)] :
        /\ \A a, b \in S : place[a] = place[b] => a = b
        /\ \A a \in S : next[place[a]] = population[a]

\* C17: the floor(E * P) lowest-fitness individuals of each generation are members,
\* unmodified, of the next generation's population.
C17_ElitesCarriedOver ==
    [][GenerationEnds =>
          \E S \in LowestFitness(ga.population, ga.elitism) :
              MembersOf(ga.population, S, ga'.population)]_vars

\* a second generation of two individuals or more whose elite has the lowest fitness and
\* stands beside a child that differs from it
C17_Witness ==
    /\ ga.pc = "gen" /\ ga.gen >= 2 /\ ga.elitism >= 1 /\ ga.elitism < ga.pop_size
    /\ calculate_cost(cvrp, ga.population[1]) = ga.stats.best[Len(ga.stats.best)]
    /\ ga.population[2] # ga.population[1]
    /\ NumCustomers(cvrp) >= 3

-----------------------------------------------------------------------------
(* Claims about the random draws *)

\* the outputs of the generator that run `by` has consumed, in order
DrawsOf(by) ==
    LET mine == SelectSeq(random.log, LAMBDA d : d.by = by)
    IN  [k \in 1..Len(mine) |-> mine[k].output]

\* what the run consumes when it runs alone from the seed: the first outputs
AloneDraws(n) == [k \in 1..n |-> Output(random.seed, k)]

\* C11: the sequence of random draws a run sees is the same whether it runs alone or
\* with the steps of another run on the same problem interleaved with it.
C11_DrawsAsWhenAlone ==
    /\ DrawsOf("tabu") = AloneDraws(Len(DrawsOf("tabu")))
    /\ DrawsOf("ga") = AloneDraws(Len(DrawsOf("ga")))

-----------------------------------------------------------------------------
(* Claims about the construction of the problem model *)

\* C12: constructing a problem model with an empty customer or demand list, or with a
\* coordinate list and a demand list of different lengths, fails with a data error and
\* produces no model.
C12_ConstructorRejectsBadLists ==
    (/\ Returned("construct")
     /\ \/ call.arg.locations = <<>>
        \/ call.arg.demands = <<>>
        \/ Len(call.arg.locations) # Len(call.arg.demands))
        => (call.result = "DataError" /\ cvrp = NoCVRP)

-----------------------------------------------------------------------------
(* Claims about _ordered_crossover *)

\* the elements of s that are not in the set window, in the order of s
Outside(s, window) == SelectSeq(s, LAMBDA x : x \notin window)

\* child is the ordered crossover of the orderings flat1 and flat2 for the cut points:
\* positions [start, end) hold flat1's customers, the others flat2's customers that are
\* not in the window, in flat2's order
IsOrderedCrossover(child, flat1, flat2, start, end) ==
    LET window == {flat1[k] : k \in (start + 1)..end}
        rest == Outside(flat2, window)
    IN  /\ Len(child) = Len(flat1)
        /\ \A k \in (start + 1)..end : child[k] = flat1[k]
        /\ \A k \in 1..start : child[k] = rest[k]
        /\ \A k \in (end + 1)..Len(child) : child[k] = rest[k - (end - start)]

\* C13: for two parents over the same N customers and cut points start < end, the ordering
\* produced by ordered crossover is a permutation of all N customers: positions
\* [start, end) hold parent1's flattened customers, the remaining positions parent2's
\* customers that are not in the window, in parent2's order.
C13_CrossoverIsPermutation ==
    Returned("crossover") =>
        /\ call.result # "ValueError"
        /\ call.result[1] \in Perms(1..NumCustomers(cvrp))
        /\ IsOrderedCrossover(call.result[1], Flat(call.arg.parent1),
                              Flat(call.arg.parent2), call.arg.start, call.arg.end)

-----------------------------------------------------------------------------
(* Claims about GreedyAlgorithm *)

\* no two customers are at the same distance from a third location
NoTies(p) ==
    \A l \in 0..NumCustomers(p) : \A c1, c2 \in 1..NumCustomers(p) :
        (c1 # c2 /\ c1 # l /\ c2 # l) => p.distance_matrix[l][c1] # p.distance_matrix[l][c2]

\* the step appends a customer to the current route
GreedyAppends ==
    /\ greedy.pc = "loop" /\ greedy'.pc = "loop"
    /\ Len(greedy'.current_route) = Len(greedy.current_route) + 1

\* the customer appended is unrouted, fits the remaining capacity and is nearest to the
\* last node among the unrouted customers that fit, the first of them in the order of
\* the unrouted customers if several are nearest; it leaves the unrouted customers
NearestFitting ==
    LET last_city == greedy.current_route[Len(greedy.current_route)]
        next_city == greedy'.current_route[Len(greedy'.current_route)]
        Fits(c) == greedy.current_load + cvrp.demands[c + 1] <= cvrp.vehicle_capacity
        Dist(c) == cvrp.distance_matrix[last_city][c]
        Position(c) == CHOOSE k \in 1..Len(greedy.customers) : greedy.customers[k] = c
    IN  /\ next_city \in SeqToSet(greedy.customers) /\ Fits(next_city)
        /\ \A c \in SeqToSet(greedy.customers) :
               Fits(c) => \/ Dist(next_city) < Dist(c)
                          \/ Dist(next_city) = Dist(c) /\ Position(next_city) <= Position(c)
        /\ SeqToSet(greedy'.customers) = SeqToSet(greedy.customers) \ {next_city}
        /\ greedy'.current_load = greedy.current_load + cvrp.demands[next_city + 1]

\* every restart so far has built the same solution
SameSolutions ==
    \A i, j \in 1..Len(greedy.solutions) : greedy.solutions[i] = greedy.solutions[j]

-----------------------------------------------------------------------------
(* Claims about validate_solution *)

\* (a) every customer index appears in exactly one route
CondCoverage(p, routes) ==
    \A c \in 1..NumCustomers(p) :
        Cardinality({r \in 1..Len(routes) : c \in SeqToSet(routes[r])}) = 1

\* (b) no interior index is out of the customer range or repeated
CondInterior(p, routes) ==
    LET nodes == InteriorNodes(routes)
    IN  /\ \A i \in 1..Len(nodes) : nodes[i] \in 1..NumCustomers(p)
        /\ \A i, j \in 1..Len(nodes) : nodes[i] = nodes[j] => i = j

\* (d) every route starts and ends at index 0
CondDepot(routes) ==
    \A r \in 1..Len(routes) :
        routes[r] # <<>> /\ routes[r][1] = 0 /\ routes[r][Len(routes[r])] = 0

\* (c) every route's total demand is at most the capacity (of routes over the locations)
CondCapacity(p, routes) ==
    \A r \in 1..Len(routes) :
        SumSeq([i \in 1..Len(routes[r]) |-> p.demands[routes[r][i] + 1]]) <= p.vehicle_capacity

FourConditions(p, routes) ==
    CondDepot(routes) /\ CondInterior(p, routes) /\ CondCoverage(p, routes)
        /\ CondCapacity(p, routes)

\* C2: validate returns true iff (a) every customer is in exactly one route, (b) no interior
\* index is out of range or repeated, (c) every route's demand is at most the capacity and
\* (d) every route starts and ends at 0; it returns false in every other case.
C2_ValidateIffFourConditions ==
    Returned("validate") =>
        /\ call.result \in {"True", "False"}
        /\ call.result = "True" <=> FourConditions(cvrp, call.arg)

\* C3: validate never raises: on every list of routes of integers (an empty route, a
\* one-element route, a first or last element that is no location index) it returns a boolean.
C3_ValidateNeverRaises ==
    Returned("validate") => call.result \in {"True", "False"}

-----------------------------------------------------------------------------
(* Claims about _split_to_routes *)

\* depot (0,0), customers (1,0),(2,0),(0,1),(0,2), demands 1 each, capacity 2
ExampleProblem == CVRP(Depot, SubSeq(CustomerCoords, 1, 4), <<1, 1, 1, 1>>, 2)

\* demand of the first k customers of a route
Load(p, route, k) == SumSeq([i \in 1..k |-> p.demands[Interior(route)[i] + 1]])

\* routes is the greedy partition of ordering: the interiors concatenate to the ordering,
\* every route is depot-anchored, no customer that fitted was moved to a new route, and
\* every route but the last is followed by the customer that overflowed it
GreedyPartition(p, ordering, routes) ==
    /\ InteriorNodes(routes) = ordering
    /\ \A r \in 1..Len(routes) :
        LET route == routes[r]
            n == Len(Interior(route))
        IN  /\ Len(route) >= 2 /\ route[1] = 0 /\ route[Len(route)] = 0
            /\ r > 1 => n >= 1
            /\ r = Len(routes) => n >= 1
            /\ \A k \in 1..n : (r = 1 \/ k > 1) =>
                   Load(p, route, k) <= p.vehicle_capacity
            /\ r < Len(routes) =>
                   Load(p, route, n) + Load(p, routes[r + 1], 1) > p.vehicle_capacity

\* C4: split(ordering) is the greedy partition of the ordering: the interiors of the routes
\* concatenate to the ordering, each route is depot-anchored, and a route is closed exactly
\* when the next customer would overflow it; on the example split([1,2,3,4]) is
\* [0,1,2,0],[0,3,4,0] with total distance 8.
C4_SplitIsGreedyPartition ==
    Returned("split") =>
        /\ GreedyPartition(cvrp, call.arg, call.result)
        /\ (cvrp = ExampleProblem /\ call.arg = <<1, 2, 3, 4>>) =>
               /\ call.result = << <<0, 1, 2, 0>>, <<0, 3, 4, 0>> >>
               /\ calculate_cost(cvrp, call.result) = 8 * Scale

C4_Witness ==
    /\ Returned("split") /\ cvrp = ExampleProblem /\ call.arg = <<1, 2, 3, 4>>
    /\ Len(call.result) = 2

\* every customer's demand is at most the vehicle capacity
DemandsFit(p) == \A k \in 2..Len(p.demands) : p.demands[k] <= p.vehicle_capacity

\* C18: if every customer's demand is at most the vehicle capacity, then for every
\* permutation of the customers the split routine returns a solution for which validate
\* is true and in which every route contains at least one customer (no [0,0] route).
C18_SplitValidWhenDemandsFit ==
    (Returned("split") /\ DemandsFit(cvrp)) =>
        /\ validate_solution(cvrp, call.result) = "True"
        /\ \A r \in 1..Len(call.result) :
              call.result[r] # <<0, 0>> /\ Len(call.result[r]) >= 3

\* a split into several routes, one of them of a customer that fills a vehicle alone
C18_Witness ==
    /\ Returned("split") /\ DemandsFit(cvrp) /\ NumCustomers(cvrp) >= 3
    /\ Len(call.result) >= 2
    /\ \E r \in 1..Len(call.result) :
          /\ Len(call.result[r]) = 3
          /\ cvrp.demands[call.result[r][2] + 1] = cvrp.vehicle_capacity
    /\ \E r \in 1..Len(call.result) : Len(call.result[r]) >= 4

-----------------------------------------------------------------------------
(* Claims about SimulatedAnnealing *)

\* the temperature is about 0: exp(-delta / temp) is 0.0 for every cost increase
Cold(temp) == ExpIsZero(1, temp)

\* an iteration of the loop has run; its locals delta and accepted are those of sa
SAIterated == sa.pc \in {"loop", "done"} /\ sa.i >= 1

\* the temperature the last iteration ran at, and the initial one
SALastTemp == sa.temp + sa.cooling_rate
SAInitialTemp == sa.temp + sa.i * sa.cooling_rate

\* C9 as claimed: once the temperature is about 0 a neighbour is accepted only if
\* delta < 0, and when the run ends the best cost equals the current cost.
C9_StrictImprovementOnly ==
    /\ (SAIterated /\ Cold(SALastTemp) /\ sa.accepted) => sa.delta < 0
    /\ (sa.pc = "done" /\ Cold(SALastTemp)) => sa.best_cost = sa.current_cost

\* C9 as amended: once the temperature is about 0 a neighbour is accepted only if it does
\* not increase the cost (delta <= 0); when the run ends the best cost is at most the
\* current cost, and equals it if the temperature was about 0 from the first iteration.
C9_NoWorseningOnceCold ==
    /\ (SAIterated /\ Cold(SALastTemp) /\ sa.accepted) => sa.delta <= 0
    /\ sa.pc = "done" => sa.best_cost <= sa.current_cost
    /\ (sa.pc = "done" /\ Cold(SAInitialTemp)) => sa.best_cost = sa.current_cost

C9_Witness ==
    /\ sa.pc = "done" /\ sa.i >= 2 /\ Cold(SAInitialTemp)
    /\ sa.accepted /\ sa.delta < 0

-----------------------------------------------------------------------------
(* Claims about TabuSearch *)

\* an iteration of the loop has run
TabuIterated == tabu.pc \in {"loop", "done"} /\ tabu.i >= 1

\* current_solution before the last iteration
TabuPrevious == tabu.visited[Len(tabu.visited) - 1]

\* C10: with tabu_size 0 every iteration sets the current solution to the lowest-cost of the
\* generated neighbours, also when it costs more than the current solution and also when
\* it was visited before, and the tabu list is empty at the start of every iteration.
C10_Size0MovesToBestNeighbour ==
    tabu.tabu_size = 0 =>
        /\ tabu.tabu_list = <<>>
        /\ TabuIterated =>
               /\ tabu.current_solution \in get_neighbor(cvrp, TabuPrevious)
               /\ calculate_cost(cvrp, tabu.current_solution) = tabu.lowest
               /\ tabu.current_cost = tabu.lowest

\* a move to a neighbour that costs more and was the current solution two iterations ago
C10_Witness ==
    /\ tabu.tabu_size = 0 /\ tabu.neighborhood_size >= 2
    /\ tabu.pc = "loop" /\ tabu.i = 2 /\ Len(tabu.visited) = 3
    /\ tabu.current_solution = tabu.visited[1]
    /\ tabu.current_solution # TabuPrevious
    /\ tabu.stats.current[2] > tabu.stats.current[1]

\* the step is an iteration of the loop in which every generated neighbour was tabu
AllTabuIteration ==
    /\ tabu.pc = "loop" /\ tabu'.pc = "loop" /\ tabu'.i = tabu.i + 1
    /\ tabu'.all_tabu

\* C15: in an iteration in which the signature of every generated neighbour is in the
\* tabu list, the current solution, the current cost, the best solution, the best cost
\* and the tabu list are left unchanged, and one statistics entry is recorded.
C15_AllTabuLeavesStateUnchanged ==
    [][AllTabuIteration =>
          /\ tabu'.current_solution = tabu.current_solution
          /\ tabu'.current_cost = tabu.current_cost
          /\ tabu'.best_solution = tabu.best_solution
          /\ tabu'.best_cost = tabu.best_cost
          /\ tabu'.tabu_list = tabu.tabu_list
          /\ tabu'.stats.best = Append(tabu.stats.best, tabu.best_cost)
          /\ tabu'.stats.current = Append(tabu.stats.current, tabu.current_cost)
          /\ Len(tabu'.stats.worst) = Len(tabu.stats.worst) + 1]_vars

\* an iteration on two customers or more whose neighbours were all tabu
C15_Witness ==
    /\ tabu.pc = "loop" /\ tabu.i >= 3 /\ tabu.all_tabu
    /\ NumCustomers(cvrp) >= 2 /\ Len(tabu.tabu_list) = 2

\* the last n elements of a sequence
LastN(s, n) == IF Len(s) <= n THEN s ELSE SubSeq(s, Len(s) - n + 1, Len(s))

\* no signature is held twice
NoDuplicates(s) == \A a, b \in 1..Len(s) : s[a] = s[b] => a = b

\* C16: after every iteration the tabu list holds at most M signatures and no duplicates,
\* and it is the signatures of the last min(M, number of moves) chosen non-tabu
\* neighbours in the order they were chosen.
C16_TabuListIsLastChosen ==
    tabu.pc \in {"loop", "done"} =>
        /\ Len(tabu.tabu_list) <= tabu.tabu_size
        /\ NoDuplicates(tabu.tabu_list)
        /\ tabu.tabu_list = LastN(tabu.chosen, Min2(tabu.tabu_size, Len(tabu.chosen)))

====
